---- MODULE Spec2Model ----
\* Verification model of the fact-checking pipeline (fake-news-checker/backend):
\* the content extractor of preprocessor.py, the request validation of api.py,
\* the orchestrator FactChecker.check_fact and the similarity checker.
EXTENDS Integers, Sequences, FiniteSets, TLC

\* ---------------------------------------------------------------- texts
\* A text is a sequence of runs [c, n]: n consecutive characters of class c.
\*   "w"  a character the normalizer keeps (word character, basic punctuation)
\*   "s"  whitespace
\*   "x"  a character outside the normalizer's whitelist
W(n) == [c |-> "w", n |-> n]
S(n) == [c |-> "s", n |-> n]
X(n) == [c |-> "x", n |-> n]

RECURSIVE TextLen(_)
TextLen(t) == IF t = <<>> THEN 0 ELSE Head(t).n + TextLen(Tail(t))

\* re.sub(r"[^\w\s...]", " ", text): every character outside the whitelist
\* becomes one blank.
BlankOut(t) == [i \in 1..Len(t) |-> IF t[i].c = "x" THEN S(t[i].n) ELSE t[i]]

\* re.sub(r"\s+", " ", text): every maximal stretch of whitespace becomes one blank.
RECURSIVE Collapse(_)
Collapse(t) ==
    IF t = <<>> THEN <<>>
    ELSE IF Head(t).c = "s"
         THEN LET rest == Collapse(Tail(t))
              IN  IF rest # <<>> /\ Head(rest).c = "s" THEN rest
                  ELSE <<S(1)>> \o rest
         ELSE <<Head(t)>> \o Collapse(Tail(t))

\* str.strip(): leading and trailing whitespace removed.
Strip(t) ==
    LET a == IF t # <<>> /\ Head(t).c = "s" THEN Tail(t) ELSE t
    IN  IF a # <<>> /\ a[Len(a)].c = "s" THEN SubSeq(a, 1, Len(a) - 1) ELSE a

normalize_text(text) ==
    IF text = <<>> THEN <<>> ELSE Strip(Collapse(BlankOut(text)))

\* Page contents the extractor may be handed (what _extract_content returns for
\* the fetched page): long enough, exactly at the threshold, long only because
\* of characters the normalizer removes, nothing but such characters, and empty.
PageTexts ==
    { <<W(101)>>, <<W(100)>>, <<W(61), X(40)>>, <<X(101)>>, <<>> }

\* Page titles (as normalized): none, or a headline with a refutation term.
PageTitles == {"", "tin gia"}

\* Titles the source finder gives its candidates.
ArticleTitles == {"bai bao"}

TitleLen(t) == IF t = "" THEN 0 ELSE 7

\* -------------------------------------------------------- HTTP responses
RaiseResp == [kind |-> "raise", status |-> 0, title |-> "", content |-> <<>>]
HttpError == [kind |-> "http", status |-> 404, title |-> "", content |-> <<>>]
HttpOk(ti, co) == [kind |-> "http", status |-> 200, title |-> ti, content |-> co]

Responses ==
    {RaiseResp, HttpError} \cup {HttpOk(ti, co) : ti \in PageTitles, co \in PageTexts}

\* ------------------------------------------------------ extraction records
NoRec == [title |-> "", content |-> <<>>]

\* What a strategy, extract_from_url or _process_url hands back: a record
\* ("rec"), None ("none") or an exception leaving it ("raise", at: where it was
\* raised); caught tells that a fallback strategy raised inside and handled it.
Found(ti, co) ==
    [kind |-> "rec", rec |-> [title |-> ti, content |-> co], caught |-> FALSE, at |-> ""]
Nothing(c) == [kind |-> "none", rec |-> NoRec, caught |-> c, at |-> ""]
Raised(where) == [kind |-> "raise", rec |-> NoRec, caught |-> FALSE, at |-> where]

MinContentLen == 100

\* The parsing path shared by strategies 1 and 2: a record when the response
\* is a 200 whose extracted content is longer than MinContentLen characters
\* (the strings are normalized after that test), None otherwise.
ParsePage(resp) ==
    IF resp.status = 200 /\ resp.content # <<>>
       /\ TextLen(resp.content) > MinContentLen
    THEN Found(resp.title, normalize_text(resp.content))
    ELSE Nothing(FALSE)

\* ------------------------------------------- strategy 1: direct fetch
max_retries == 3

\* for attempt in range(max_retries): whether the loop body runs for `attempt`.
InRetryRangeOneMore(attempt) == attempt <= max_retries

InRetryRange(attempt) == attempt < max_retries

SleepsAfterEvery(attempt) == attempt < max_retries

\* if attempt < max_retries - 1: time.sleep(random.uniform(2, 5))
SleepsAfter(attempt) == attempt < max_retries - 1

\* One pass of the loop: the GET raises (caught in the loop body) or is parsed.
attempt_result(resp) ==
    IF resp.kind = "raise" THEN Nothing(FALSE) ELSE ParsePage(resp)

RECURSIVE RequestsLoopRawOnRetry(_, _)
RequestsLoopRawOnRetry(resps, attempt) ==
    IF ~InRetryRange(attempt) \/ attempt >= Len(resps) THEN Nothing(FALSE)
    ELSE LET r == attempt_result(resps[attempt + 1])
         IN  IF r.kind = "rec"
             THEN (IF attempt = 0 THEN r
                   ELSE Found(r.rec.title, resps[attempt + 1].content))
             ELSE RequestsLoopRawOnRetry(resps, attempt + 1)

\* _try_requests_method on the responses the network gives to its attempts.
RECURSIVE RequestsLoop(_, _)
RequestsLoop(resps, attempt) ==
    IF ~InRetryRange(attempt) \/ attempt >= Len(resps) THEN Nothing(FALSE)
    ELSE LET r == attempt_result(resps[attempt + 1])
         IN  IF r.kind = "rec" THEN r ELSE RequestsLoop(resps, attempt + 1)

try_requests_method(resps) == RequestsLoop(resps, 0)

\* ------------------------------------------- strategy 2: archive fallback
\* The snapshot lookup: the request raises, the answer names no closest
\* snapshot, or it names one.
Lookups == {"raise", "none", "closest"}

try_archive_method_uncaught(lookup, resp) ==
    IF lookup = "raise" THEN Raised("archive")
    ELSE IF lookup = "none" THEN Nothing(FALSE)
    ELSE IF resp.kind = "raise" THEN Raised("archive")
    ELSE ParsePage(resp)

\* _try_archive_method on the answer to the lookup and, when it names a
\* snapshot, the response to the fetch of the snapshot.
try_archive_method(lookup, resp) ==
    IF lookup = "raise" THEN Nothing(TRUE)
    ELSE IF lookup = "none" THEN Nothing(FALSE)
    ELSE IF resp.kind = "raise" THEN Nothing(TRUE)
    ELSE ParsePage(resp)

\* ------------------------------------- strategy 3: search-snippet fallback
\* The search page: the request raises, no result links to the URL, or one
\* does, with a headline and a snippet.
SearchRaise == [kind |-> "raise", title |-> "", content |-> <<>>]
SearchNoMatch == [kind |-> "nomatch", title |-> "", content |-> <<>>]
SearchMatch(ti, sn) == [kind |-> "match", title |-> ti, content |-> sn]

SearchResponses ==
    {SearchRaise, SearchNoMatch}
        \cup {SearchMatch(ti, sn) : ti \in PageTitles, sn \in PageTexts}

try_search_snippet_method(sr) ==
    IF sr.kind = "raise" THEN Nothing(TRUE)
    ELSE IF sr.kind = "match" /\ sr.title # "" /\ sr.content # <<>>
            /\ TextLen(sr.content) > MinContentLen
         THEN Found(sr.title, normalize_text(sr.content))
         ELSE Nothing(FALSE)

\* ------------------------------------------------------ extract_from_url
Strategies == <<"requests", "archive", "snippet">>

\* What extract_from_url does once strategy number k has handed back r:
\* 0 stands for leaving the function, otherwise the number of the next strategy.
AfterStrategyIgnoringResult(k, r) ==
    IF r.kind = "raise" \/ k = Len(Strategies) THEN 0 ELSE k + 1

AfterStrategy(k, r) ==
    IF r.kind # "none" \/ k = Len(Strategies) THEN 0 ELSE k + 1

RECURSIVE Chain(_, _, _)
Chain(rs, k, c) ==
    LET r == rs[k]
        nx == AfterStrategy(k, r)
    IN  IF nx # 0 THEN Chain(rs, nx, c \/ r.caught)
        ELSE IF r.kind = "none" THEN Nothing(c \/ r.caught)
        ELSE r

\* extract_from_url on what the three strategies would hand back for the URL;
\* caught tells that some strategy handled an exception on the way.
extract_from_url(d, a, s) == Chain(<<d, a, s>>, 1, FALSE)

\* Everything the three strategies can hand back, and everything
\* extract_from_url can.
DirectResults == {try_requests_method(rs) : rs \in [1..max_retries -> Responses]}
ArchiveResults == {try_archive_method(lk, resp) : lk \in Lookups, resp \in Responses}
SnippetResults == {try_search_snippet_method(sr) : sr \in SearchResponses}

ExtractResults ==
    {extract_from_url(d, a, s) :
        d \in DirectResults, a \in ArchiveResults, s \in SnippetResults}

\* ------------------------------------------------------------ _process_url
\* _process_url on what extract_from_url hands back; fault tells that the
\* keyword / entity / number extraction that follows raises.
process_url(x, fault) ==
    IF x.kind = "none" THEN Nothing(x.caught)
    ELSE IF x.kind = "raise" THEN x
    ELSE IF fault THEN Raised("nlp")
    ELSE x

ProcessUrlResults == {process_url(x, f) : x \in ExtractResults, f \in BOOLEAN}

\* ------------------------------------------------------------ text claims
\* A text claim is a sequence of words [len, kind]; kind "stop" is a stopword,
\* "digit" a number, "word" anything else.
Tok(l, k) == [len |-> l, kind |-> k]

InputTexts ==
    { <<>>,
      <<Tok(2, "word")>>,
      <<Tok(5, "word"), Tok(7, "word")>>,
      <<Tok(8, "digit"), Tok(8, "digit")>>,
      <<Tok(2, "word"), Tok(2, "word"), Tok(2, "word")>>,
      <<Tok(3, "stop"), Tok(8, "digit"), Tok(3, "stop"), Tok(3, "stop")>>,
      <<Tok(5, "word"), Tok(7, "word"), Tok(2, "word")>> }

\* The words of a claim as a text, one blank between two words.
RECURSIVE AsText(_)
AsText(ws) ==
    IF ws = <<>> THEN <<>>
    ELSE IF Len(ws) = 1 THEN <<W(ws[1].len)>>
    ELSE <<W(ws[1].len), S(1)>> \o AsText(Tail(ws))

MinKeywordLen == 3

\* extract_keywords_basic: tokens that are no stopword, no number and at least
\* MinKeywordLen characters long.
extract_keywords_basic(ws) ==
    SelectSeq(ws, LAMBDA t : t.kind = "word" /\ t.len >= MinKeywordLen)

\* extract_keywords: the KeyBERT keywords when there are any (kb), else the
\* basic ones.
extract_keywords(ws, kb) == IF kb # <<>> THEN kb ELSE extract_keywords_basic(ws)

\* What KeyBERT / NER may hand back: nothing (also: not available), or a phrase.
KeyBertResults == { <<>>, <<Tok(5, "word")>> }

NoProcessed == [ok |-> FALSE, keywords |-> <<>>, full_len |-> 0, title |-> ""]

\* process_input for a text claim.
process_text(ws, kb) ==
    [ok |-> TRUE,
     keywords |-> extract_keywords(ws, kb),
     full_len |-> TextLen(normalize_text(AsText(ws))),
     title |-> ""]

\* process_input for a URL claim: _process_url, full_text being
\* "<title> <description> <content>" of a page without a description.
process_claim_url(x, kb) ==
    IF x.kind # "rec" THEN NoProcessed
    ELSE [ok |-> TRUE,
          keywords |-> kb,
          full_len |-> TitleLen(x.rec.title) + 1 + 0 + 1 + TextLen(x.rec.content),
          title |-> x.rec.title]

\* ------------------------------------------------------ request validation
MinWords == 3

\* FactCheckRequest.validate_content_based_on_type: TRUE when it raises (the
\* content is blank, or a text claim has fewer than MinWords words). The
\* content of a URL claim is its URL, which is not blank.
validate_rejects_blank_only(type, ws) == type = "text" /\ ws = <<>>

validate_rejects(type, ws) ==
    \/ type = "text" /\ ws = <<>>
    \/ type = "text" /\ Len(ws) < MinWords

\* ------------------------------------------------------------- check_fact
MinFullTextLen == 15

\* if not processed["keywords"] and len(processed["full_text"]) < 15
too_short_either(processed) ==
    processed.keywords = <<>> \/ processed.full_len < MinFullTextLen

too_short(processed) ==
    processed.keywords = <<>> /\ processed.full_len < MinFullTextLen

\* except Exception as e: status error, the message kept; the result returned.
\* `stage` names what raised.
handler_missing(stage) == [pc |-> "escaped", status |-> "processing", error |-> stage]

on_exception(stage) == [pc |-> "done", status |-> "error", error |-> stage]

\* if not reference_articles
no_candidates_unchecked(articles) == FALSE

no_candidates(articles) == articles = <<>>

\* except Exception inside the as_completed loop: the candidate is dropped.
on_worker_exception_abort == "abort"

on_worker_exception == "drop"

\* if content and content["content"]: whether a worker's result is merged.
usable_any(o) == o.kind = "rec"

usable(o) == o.kind = "rec" /\ o.rec.content # <<>>

\* The evidence record appended for candidate `art` and worker result o.
evidence(art, o) ==
    [url |-> art.url,
     title |-> IF o.rec.title # "" THEN o.rec.title ELSE art.title,
     content |-> o.rec.content]

\* ------------------------------------------------------ similarity checker
\* Similarities in ten-thousandths: float(sim) of util.cos_sim, a cosine, which
\* lies in [-1, 1].
Scores == {0 - 2000, 2000, 9000}

\* results.sort(key=similarity, reverse=True): stable, descending.
RECURSIVE InsertDesc(_, _)
InsertDesc(x, sorted) ==
    IF sorted = <<>> THEN <<x>>
    ELSE IF Head(sorted).similarity >= x.similarity
         THEN <<Head(sorted)>> \o InsertDesc(x, Tail(sorted))
         ELSE <<x>> \o sorted

RECURSIVE SortDesc(_)
SortDesc(items) ==
    IF items = <<>> THEN <<>>
    ELSE InsertDesc(items[Len(items)], SortDesc(SubSeq(items, 1, Len(items) - 1)))

\* A variant that numbers the results after sorting them.
calculate_similarity_batch_renumbered(sims) ==
    LET sorted == SortDesc([i \in 1..Len(sims) |-> [index |-> i, similarity |-> sims[i]]])
    IN  [k \in 1..Len(sorted) |-> [index |-> k, similarity |-> sorted[k].similarity]]

\* calculate_similarity_batch on the similarities the encoder gives the
\* references (index counted from 1 here).
calculate_similarity_batch(sims) ==
    SortDesc([i \in 1..Len(sims) |-> [index |-> i, similarity |-> sims[i]]])

\* Stage 5: the scored evidence, built from the batch result and the metadata
\* of the evidence record at each result's index.
score_references(refs, sims) ==
    LET batch_results == calculate_similarity_batch(sims)
    IN  [k \in 1..Len(batch_results) |->
            [url |-> refs[batch_results[k].index].url,
             title |-> refs[batch_results[k].index].title,
             overall_similarity |-> batch_results[k].similarity]]

NoVerdict ==
    [verdict |-> "", label |-> "", explanation |-> "", color |-> "",
     similarity_score |-> 0, confidence |-> 0]

Abs(v) == IF v < 0 THEN -v ELSE v

\* The similarity 1.0, in ten-thousandths.
One == 10000

Band(verdict, label, explanation, color) ==
    [verdict |-> verdict, label |-> label,
     explanation |-> explanation, color |-> color]

verdict_band_exclusive(score) ==
    IF score > 8500
    THEN Band("HIGHLY_LIKELY_TRUE", "Rat co kha nang dung", "rat cao", "green")
    ELSE IF score > 7000
    THEN Band("LIKELY_TRUE", "Co kha nang dung", "kha tuong dong", "lightgreen")
    ELSE IF score > 5000
    THEN Band("UNCERTAIN", "Khong chac chan", "mot so diem tuong dong", "orange")
    ELSE IF score > 3000
    THEN Band("LIKELY_FALSE", "Co kha nang sai", "it diem tuong dong", "coral")
    ELSE Band("HIGHLY_LIKELY_FALSE", "Rat co kha nang sai", "rat thap", "red")

\* The if/elif chain of generate_verdict: verdict, label, explanation, color.
verdict_band(score) ==
    IF score >= 8500
    THEN Band("HIGHLY_LIKELY_TRUE", "Rat co kha nang dung", "rat cao", "green")
    ELSE IF score >= 7000
    THEN Band("LIKELY_TRUE", "Co kha nang dung", "kha tuong dong", "lightgreen")
    ELSE IF score >= 5000
    THEN Band("UNCERTAIN", "Khong chac chan", "mot so diem tuong dong", "orange")
    ELSE IF score >= 3000
    THEN Band("LIKELY_FALSE", "Co kha nang sai", "it diem tuong dong", "coral")
    ELSE Band("HIGHLY_LIKELY_FALSE", "Rat co kha nang sai", "rat thap", "red")

\* confidence = abs(similarity_score - 0.5) * 2
confidence_of(score) == Abs(score - 5000) * 2

generate_verdict(score) ==
    LET b == verdict_band(score)
    IN  [verdict |-> b.verdict,
         label |-> b.label,
         explanation |-> b.explanation,
         color |-> b.color,
         similarity_score |-> score,
         confidence |-> confidence_of(score)]

\* any(keyword in title_lower for keyword in refutation_keywords)
RefutationTitles == {"tin gia"}

\* title_lower = r["title"].lower()
Lower(title) == IF title = "TIN GIA" THEN "tin gia" ELSE title

has_refutation_keyword(title) == Lower(title) \in RefutationTitles

TopN == 3

RefutationFloor == 6000

final_score_inclusive(r) ==
    IF has_refutation_keyword(r.title) /\ r.overall_similarity >= RefutationFloor
    THEN One - r.overall_similarity
    ELSE r.overall_similarity

\* A variant that mirrors the score of every refuting item.
final_score_mirrored(r) ==
    IF has_refutation_keyword(r.title)
    THEN One - r.overall_similarity
    ELSE r.overall_similarity

final_score(r) ==
    IF has_refutation_keyword(r.title) /\ r.overall_similarity > RefutationFloor
    THEN One - r.overall_similarity
    ELSE r.overall_similarity

RECURSIVE MaxOf(_)
MaxOf(q) ==
    IF Len(q) = 1 THEN q[1]
    ELSE LET m == MaxOf(Tail(q)) IN IF q[1] >= m THEN q[1] ELSE m

top_results_all(similarity_results) == similarity_results

top_results_of(similarity_results) ==
    SubSeq(similarity_results, 1,
           IF Len(similarity_results) < TopN THEN Len(similarity_results) ELSE TopN)

final_scores_of(top) == [i \in 1..Len(top) |-> final_score(top[i])]

highest_similarity_of(top) ==
    IF top = <<>> THEN 0
    ELSE MaxOf(final_scores_of(top))

\* Stage 6 up to the call of generate_verdict: the top results, their
\* adjusted scores, and the highest of these.
refutation_check_and_max(similarity_results) ==
    LET top == top_results_of(similarity_results)
    IN  [top_results |-> top,
         final_scores |-> final_scores_of(top),
         highest_similarity |-> highest_similarity_of(top)]

\* ------------------------------------------------------- URL-shape check
\* A URL, by what is_valid_article_url looks at: whether it holds a digit,
\* whether it holds one of the invalid_patterns, and the length of what
\* follows its last "/".
MinTailLen == 15

Urls ==
    { [digit |-> TRUE,  pattern |-> FALSE, tail |-> 16],
      [digit |-> FALSE, pattern |-> FALSE, tail |-> 16],
      [digit |-> TRUE,  pattern |-> TRUE,  tail |-> 16],
      [digit |-> TRUE,  pattern |-> FALSE, tail |-> 15] }

NoUrl == [digit |-> FALSE, pattern |-> FALSE, tail |-> 0]

is_valid_article_url(url) ==
    LET has_number == url.digit
        is_not_category == ~url.pattern
        has_sufficient_length == url.tail > MinTailLen
    IN  has_number /\ is_not_category /\ has_sufficient_length

proceeds_only_if_valid(url) == is_valid_article_url(url)

\* extract_from_url after the check: it logs a warning for a URL that is not
\* valid and goes on to strategy 1 either way.
proceeds_after_url_check(url) == is_valid_article_url(url) \/ TRUE

\* ================================================================ state
MaxCandidates == 2

PoolSize == 5

VARIABLES
    \* one call of extract_from_url, step by step
    xpc,        \* where the call is
    xattempt,   \* the loop variable of _try_requests_method
    xcalls,     \* the strategies invoked so far, in order
    xouts,      \* what each invoked strategy handed back ("rec" or "none")
    xtrace,     \* the network requests and sleeps so far, in order
    xnet,       \* what the network answered so far
    xres,       \* what extract_from_url returned
    xurl,       \* the URL extract_from_url was called with
    \* one request, through the endpoint or to check_fact directly
    entry,              \* "api" or "direct"
    input_type,         \* "text" or "url"
    user_input,         \* the words of a text claim
    pc,                 \* where the request is
    processed,          \* what process_input returned
    results,            \* the results dictionary of check_fact
    reference_articles, \* the candidates of the source finder
    futures,            \* per candidate: its extraction task
    consumed,           \* the futures as_completed has handed out
    reference_contents, \* the evidence merged so far
    similarity_results, \* the scored evidence
    calls,              \* how often each collaborator was invoked
    http,               \* the endpoint: instance ready, response status, body
    \* one call of a function of the scoring stages
    fcall,      \* the function and its argument
    fret        \* <<>> while the call is pending, then <<what it returned>>

xvars == <<xpc, xattempt, xcalls, xouts, xtrace, xnet, xres, xurl>>

pvars == <<entry, input_type, user_input, pc, processed, results,
           reference_articles, futures, consumed, reference_contents,
           similarity_results, calls, http>>

fvars == <<fcall, fret>>

vars == <<xpc, xattempt, xcalls, xouts, xtrace, xnet, xres, xurl,
          entry, input_type, user_input, pc, processed, results,
          reference_articles, futures, consumed, reference_contents,
          similarity_results, calls, http, fcall, fret>>

\* ------------------------------------------- extract_from_url, step by step
XInit ==
    /\ xpc = "start"
    /\ xattempt = 0
    /\ xcalls = <<>>
    /\ xouts = <<>>
    /\ xtrace = <<>>
    /\ xnet = <<>>
    /\ xres = Nothing(FALSE)

\* Strategy number k is called.
XCall(k) ==
    /\ xpc' = Strategies[k]
    /\ xcalls' = Append(xcalls, Strategies[k])

\* Strategy number k hands back r (or r leaves it as an exception):
\* extract_from_url returns, lets the exception through, or calls the next one.
XHandBack(k, r) ==
    /\ xouts' = Append(xouts, r.kind)
    /\ IF AfterStrategy(k, r) = 0
       THEN /\ xpc' = (IF r.kind = "raise" THEN "raised" ELSE "returned")
            /\ xres' = (IF r.kind = "none" THEN Nothing(FALSE) ELSE r)
            /\ UNCHANGED xcalls
       ELSE /\ XCall(AfterStrategy(k, r))
            /\ UNCHANGED xres

\* extract_from_url: the URL-shape warning, then strategy 1 is called.
XStart ==
    /\ xpc = "start"
    /\ IF proceeds_after_url_check(xurl)
       THEN XCall(1)
       ELSE xpc' = "returned" /\ UNCHANGED xcalls
    /\ UNCHANGED <<xattempt, xouts, xtrace, xnet, xres>>
    /\ UNCHANGED <<xurl, pvars, fvars>>

\* One pass of the retry loop of _try_requests_method: one GET and its parsing.
XAttempt ==
    /\ xpc = "requests"
    /\ InRetryRange(xattempt)
    /\ \E resp \in Responses :
        LET r == attempt_result(resp)
        IN  /\ xtrace' = Append(xtrace, "GET url")
            /\ xnet' = Append(xnet, resp)
            /\ IF r.kind = "rec"
               THEN XHandBack(1, r) /\ UNCHANGED xattempt
               ELSE IF SleepsAfter(xattempt)
               THEN /\ xpc' = "sleep"
                    /\ UNCHANGED <<xattempt, xcalls, xouts, xres>>
               ELSE /\ xattempt' = xattempt + 1
                    /\ xpc' = "requests"
                    /\ UNCHANGED <<xcalls, xouts, xres>>
    /\ UNCHANGED <<xurl, pvars, fvars>>

\* The randomized backoff before the next pass.
XSleep ==
    /\ xpc = "sleep"
    /\ xtrace' = Append(xtrace, "sleep")
    /\ xattempt' = xattempt + 1
    /\ xpc' = "requests"
    /\ UNCHANGED <<xcalls, xouts, xnet, xres>>
    /\ UNCHANGED <<xurl, pvars, fvars>>

\* The retry loop is exhausted: _try_requests_method returns None.
XRetriesExhausted ==
    /\ xpc = "requests"
    /\ ~InRetryRange(xattempt)
    /\ XHandBack(1, Nothing(FALSE))
    /\ UNCHANGED <<xattempt, xtrace, xnet>>
    /\ UNCHANGED <<xurl, pvars, fvars>>

LookupAnswer(lk) == [kind |-> lk, status |-> 0, title |-> "", content |-> <<>>]

\* _try_archive_method: the snapshot lookup.
XArchiveLookup ==
    /\ xpc = "archive"
    /\ \E lk \in Lookups :
        /\ xtrace' = Append(xtrace, "GET lookup")
        /\ xnet' = Append(xnet, LookupAnswer(lk))
        /\ IF lk = "closest"
           THEN xpc' = "snapshot" /\ UNCHANGED <<xcalls, xouts, xres>>
           ELSE XHandBack(2, try_archive_method(lk, RaiseResp))
    /\ UNCHANGED xattempt
    /\ UNCHANGED <<xurl, pvars, fvars>>

\* _try_archive_method: the fetch of the snapshot and its parsing.
XArchiveFetch ==
    /\ xpc = "snapshot"
    /\ \E resp \in Responses :
        /\ xtrace' = Append(xtrace, "GET snapshot")
        /\ xnet' = Append(xnet, resp)
        /\ XHandBack(2, try_archive_method("closest", resp))
    /\ UNCHANGED xattempt
    /\ UNCHANGED <<xurl, pvars, fvars>>

\* A variant that sends the search request a second time when the first
\* gave nothing.
XSnippetTwice ==
    /\ xpc = "snippet"
    /\ \E sr \in SearchResponses :
        /\ xtrace' = Append(xtrace, "GET search")
        /\ xnet' = Append(xnet, [kind |-> sr.kind, status |-> 0,
                                 title |-> sr.title, content |-> sr.content])
        /\ IF try_search_snippet_method(sr).kind = "none"
              /\ \A i \in 1..Len(xtrace) : xtrace[i] # "GET search"
           THEN UNCHANGED <<xpc, xcalls, xouts, xres>>
           ELSE XHandBack(3, try_search_snippet_method(sr))
    /\ UNCHANGED xattempt
    /\ UNCHANGED <<xurl, pvars, fvars>>

\* _try_search_snippet_method: the search request and the scan of its results.
XSnippet ==
    /\ xpc = "snippet"
    /\ \E sr \in SearchResponses :
        /\ xtrace' = Append(xtrace, "GET search")
        /\ xnet' = Append(xnet, [kind |-> sr.kind, status |-> 0,
                                 title |-> sr.title, content |-> sr.content])
        /\ XHandBack(3, try_search_snippet_method(sr))
    /\ UNCHANGED xattempt
    /\ UNCHANGED <<xurl, pvars, fvars>>

\* -------------------------------------------------- one request, by stage
\* The results dictionary; a key check_fact has not set stands as "", as
\* NoVerdict, as 0 or as the empty list.
NoResults ==
    [status |-> "none", error |-> "", message |-> "", verdict |-> NoVerdict,
     highest_similarity |-> 0, top_references |-> <<>>]

NoCalls == [search |-> 0, submit |-> 0, similarity |-> 0, verdict |-> 0]

\* A submitted task: where it is, what it handed back, and how many times a
\* pool thread has taken it up.
NoFuture == [st |-> "queued", out |-> Nothing(FALSE), runs |-> 0]

\* ------------------------------------------------- the endpoint's answer
\* dict.get(key, default), a key that is not set standing as "".
Get(value, default) == IF value = "" THEN default ELSE value

NoFrontVerdict ==
    [label |-> "", code |-> "", explanation |-> "", color |-> "",
     similarity_percentage |-> 0, confidence_percentage |-> 0]

\* No response body; keys is the set of keys of the returned dictionary.
NoBody ==
    [keys |-> {}, success |-> FALSE, message |-> "",
     verdict |-> NoFrontVerdict, references |-> <<>>]

Failure(message) ==
    [keys |-> {"success", "message"}, success |-> FALSE, message |-> message,
     verdict |-> NoFrontVerdict, references |-> <<>>]

\* The success branch of format_result_for_frontend; percentages are in
\* hundredths of a percent, which is what round(x * 100, 2) keeps.
Formatted(res) ==
    [keys |-> {"success", "verdict", "references", "keywords", "timestamp"},
     success |-> TRUE,
     message |-> "",
     verdict |->
        [label |-> res.verdict.label,
         code |-> res.verdict.verdict,
         explanation |-> res.verdict.explanation,
         color |-> res.verdict.color,
         similarity_percentage |-> res.highest_similarity,
         confidence_percentage |-> res.verdict.confidence],
     references |->
        [k \in 1..Len(res.top_references) |->
            [title |-> res.top_references[k].title,
             url |-> res.top_references[k].url,
             similarity_percentage |-> res.top_references[k].similarity]]]

format_result_failure_only_on_error(res) ==
    IF res.status = "input_too_short"
    THEN Failure(Get(res.message, "Noi dung khong hop le"))
    ELSE IF res.status = "error"
    THEN Failure(Get(res.message, Get(res.error, "Unknown error")))
    ELSE Formatted(res)

format_result_for_frontend(res) ==
    IF res.status = "input_too_short"
    THEN Failure(Get(res.message, "Noi dung khong hop le"))
    ELSE IF res.status # "success"
    THEN Failure(Get(res.message, Get(res.error, "Unknown error")))
    ELSE Formatted(res)

\* The status FastAPI answers with when the request model's validator raises.
RequestValidationStatus == 422

\* The except clauses of the endpoint: ValueError gives 400, any other
\* Exception, the HTTPException raised inside the try block included, 500.
endpoint_status(exc) == IF exc = "ValueError" THEN 400 ELSE 500

HttpIdle(ready) == http = [ready |-> ready, status |-> 0, body |-> NoBody]

PIdle ==
    /\ pc = "request"
    /\ processed = NoProcessed
    /\ results = NoResults
    /\ reference_articles = <<>>
    /\ futures = <<>>
    /\ consumed = {}
    /\ reference_contents = <<>>
    /\ similarity_results = <<>>
    /\ calls = NoCalls

PInit ==
    /\ entry \in {"api", "direct"}
    /\ input_type \in {"text", "url"}
    /\ user_input \in (IF input_type = "text" THEN InputTexts ELSE {<<>>})
    /\ PIdle
    /\ \E ready \in BOOLEAN : (entry = "direct" => ready) /\ HttpIdle(ready)

\* results["message"] of the early returns.
message_of(status) ==
    IF status = "input_too_short" THEN "Noi dung qua ngan"
    ELSE IF status = "no_references" THEN "Khong tim thay bai bao tham khao"
    ELSE IF status = "crawl_failed" THEN "Khong the crawl noi dung"
    ELSE ""

\* An exception reaches the try block of check_fact: its handler returns the
\* results with status error and the message.
Leave(stage) ==
    LET h == on_exception(stage)
    IN  /\ pc' = h.pc
        /\ results' = [results EXCEPT !.status = h.status, !.error = h.error]

\* check_fact returns with a terminal status.
Return(status) ==
    /\ pc' = "done"
    /\ results' = [results EXCEPT !.status = status,
                                  !.message = message_of(status)]

\* The endpoint: the request model's validator raises, and check_fact is not
\* called.
ApiReject ==
    /\ pc = "request" /\ entry = "api"
    /\ validate_rejects(input_type, user_input)
    /\ pc' = "rejected"
    /\ http' = [http EXCEPT !.status = RequestValidationStatus]
    /\ UNCHANGED <<xvars, fvars>>
    /\ UNCHANGED <<entry, input_type, user_input, processed, results,
                   reference_articles, futures, consumed, reference_contents,
                   similarity_results, calls>>

\* The endpoint with no fact checker instance: HTTPException(503) is raised
\* inside the try block and goes through the except clauses.
ApiUnavailable ==
    /\ pc = "request" /\ entry = "api"
    /\ ~validate_rejects(input_type, user_input)
    /\ ~http.ready
    /\ pc' = "unavailable"
    /\ http' = [http EXCEPT !.status = endpoint_status("HTTPException")]
    /\ UNCHANGED <<xvars, fvars>>
    /\ UNCHANGED <<entry, input_type, user_input, processed, results,
                   reference_articles, futures, consumed, reference_contents,
                   similarity_results, calls>>

\* The endpoint after check_fact has returned: the formatted result is sent.
ApiRespond ==
    /\ pc = "done" /\ entry = "api"
    /\ http.status = 0
    /\ http' = [http EXCEPT !.status = 200,
                            !.body = format_result_for_frontend(results)]
    /\ UNCHANGED <<xvars, fvars>>
    /\ UNCHANGED <<entry, input_type, user_input, pc, processed, results,
                   reference_articles, futures, consumed, reference_contents,
                   similarity_results, calls>>

\* check_fact is entered (from the endpoint after validation, or directly):
\* results starts with status "processing".
Enter ==
    /\ pc = "request"
    /\ entry = "api" => (~validate_rejects(input_type, user_input) /\ http.ready)
    /\ pc' = "preprocess"
    /\ results' = [results EXCEPT !.status = "processing"]
    /\ UNCHANGED <<xvars, fvars, http>>
    /\ UNCHANGED <<entry, input_type, user_input, processed,
                   reference_articles, futures, consumed, reference_contents,
                   similarity_results, calls>>

\* Stage 1 for the value p process_input returned.
AfterPreprocess(p) ==
    /\ processed' = p
    /\ IF ~p.ok
       THEN /\ pc' = "done"
            /\ results' = [results EXCEPT !.status = "error", !.error = "input"]
       ELSE IF too_short(p) THEN Return("input_too_short")
       ELSE pc' = "search" /\ UNCHANGED results

\* Stage 1: process_input and the checks on what it returned.
Preprocess ==
    /\ pc = "preprocess"
    /\ \/ \E kb \in KeyBertResults :
            /\ input_type = "text"
            /\ AfterPreprocess(process_text(user_input, kb))
       \/ \E kb \in KeyBertResults, x \in ProcessUrlResults :
            /\ input_type = "url"
            /\ x.kind # "raise"
            /\ AfterPreprocess(process_claim_url(x, kb))
       \/ Leave("preprocess") /\ UNCHANGED processed
    /\ UNCHANGED <<xvars, fvars, http>>
    /\ UNCHANGED <<entry, input_type, user_input,
                   reference_articles, futures, consumed, reference_contents,
                   similarity_results, calls>>

\* What the source finder may answer: up to MaxCandidates candidates.
CandidateLists ==
    UNION {[1..n -> ArticleTitles] : n \in 0..MaxCandidates}

\* Stage 2: search_for_fact_check, and the submission of one extraction task
\* per candidate to the pool.
Search ==
    /\ pc = "search"
    /\ \/ \E titles \in CandidateLists :
            /\ reference_articles' =
                   [i \in 1..Len(titles) |-> [url |-> i, title |-> titles[i]]]
            /\ IF no_candidates(reference_articles')
               THEN /\ Return("no_references")
                    /\ calls' = [calls EXCEPT !.search = @ + 1]
                    /\ UNCHANGED futures
               ELSE /\ pc' = "crawl"
                    /\ futures' = [i \in 1..Len(titles) |-> NoFuture]
                    /\ calls' = [calls EXCEPT !.search = @ + 1,
                                              !.submit = @ + Len(titles)]
                    /\ UNCHANGED results
       \/ /\ Leave("search")
          /\ calls' = [calls EXCEPT !.search = @ + 1]
          /\ UNCHANGED <<reference_articles, futures>>
    /\ UNCHANGED <<xvars, fvars, http>>
    /\ UNCHANGED <<entry, input_type, user_input, processed,
                   consumed, reference_contents, similarity_results>>

Running == {i \in 1..Len(futures) : futures[i].st = "running"}
Queued == {i \in 1..Len(futures) : futures[i].st = "queued"}

pool_unbounded(running) == TRUE

\* ThreadPoolExecutor(max_workers=5): a task is taken up only by one of the
\* pool's threads that is not running a task.
pool_has_idle_thread(running) == Cardinality(running) < PoolSize

\* A pool thread takes the oldest queued task.
WorkerStart(i) ==
    /\ pc = "crawl"
    /\ i \in Queued /\ \A j \in Queued : i <= j
    /\ pool_has_idle_thread(Running)
    /\ futures' = [futures EXCEPT ![i].st = "running", ![i].runs = @ + 1]
    /\ UNCHANGED <<xvars, fvars, http>>
    /\ UNCHANGED <<entry, input_type, user_input, pc, processed, results,
                   reference_articles, consumed, reference_contents,
                   similarity_results, calls>>

\* A task ends: _process_url returned or raised one of `outcomes`.
TaskEnds(i, outcomes) ==
    /\ pc = "crawl"
    /\ i \in Running
    /\ \E o \in outcomes :
        futures' = [futures EXCEPT ![i].st = "done", ![i].out = o]
    /\ UNCHANGED <<xvars, fvars, http>>
    /\ UNCHANGED <<entry, input_type, user_input, pc, processed, results,
                   reference_articles, consumed, reference_contents,
                   similarity_results, calls>>

WorkerFinish(i) == TaskEnds(i, ProcessUrlResults)

ready_to_merge_any(f) == TRUE

\* as_completed yields a future once it has finished.
ready_to_merge(f) == f.st = "done"

\* One pass of the as_completed loop, for a finished future: its result is
\* merged, or it is dropped (None, empty content, or future.result() raised).
Merge(i) ==
    /\ pc = "crawl"
    /\ i \in 1..Len(futures) /\ ready_to_merge(futures[i]) /\ i \notin consumed
    /\ consumed' = consumed \cup {i}
    /\ IF futures[i].out.kind = "raise" /\ on_worker_exception # "drop"
       THEN Leave("crawl") /\ UNCHANGED reference_contents
       ELSE /\ reference_contents' =
                  IF usable(futures[i].out)
                  THEN Append(reference_contents,
                              evidence(reference_articles[i], futures[i].out))
                  ELSE reference_contents
            /\ UNCHANGED <<pc, results>>
    /\ UNCHANGED <<xvars, fvars, http>>
    /\ UNCHANGED <<entry, input_type, user_input, processed,
                   reference_articles, futures, similarity_results, calls>>

some_completed(fs, handed) == handed # {}

\* The as_completed loop ends once it has handed out every future, and the
\* with block joins the pool's threads.
all_completed(fs, handed) == handed = 1..Len(fs)

\* The loop and the pool are left: no evidence gives crawl_failed.
CrawlDone ==
    /\ pc = "crawl"
    /\ all_completed(futures, consumed)
    /\ IF reference_contents = <<>>
       THEN Return("crawl_failed")
       ELSE pc' = "score" /\ UNCHANGED results
    /\ UNCHANGED <<xvars, fvars, http>>
    /\ UNCHANGED <<entry, input_type, user_input, processed,
                   reference_articles, futures, consumed, reference_contents,
                   similarity_results, calls>>

\* Stage 5: calculate_similarity_batch and the scored evidence.
Score ==
    /\ pc = "score"
    /\ calls' = [calls EXCEPT !.similarity = @ + 1]
    /\ \/ \E sims \in [1..Len(reference_contents) -> Scores] :
            /\ similarity_results' = score_references(reference_contents, sims)
            /\ pc' = "verdict"
            /\ UNCHANGED results
       \/ Leave("similarity") /\ UNCHANGED similarity_results
    /\ UNCHANGED <<xvars, fvars, http>>
    /\ UNCHANGED <<entry, input_type, user_input, processed,
                   reference_articles, futures, consumed, reference_contents>>

top_references_adjusted(top) ==
    [k \in 1..Len(top) |->
        [url |-> top[k].url, title |-> top[k].title,
         similarity |-> final_score(top[k])]]

top_references_of(top) ==
    [k \in 1..Len(top) |->
        [url |-> top[k].url, title |-> top[k].title,
         similarity |-> top[k].overall_similarity]]

success_result_without_verdict(res, top, highest) ==
    [res EXCEPT
        !.status = "success",
        !.highest_similarity = highest,
        !.top_references = top_references_of(top)]

\* The results dictionary as stage 6 fills it in.
success_result(res, top, highest) ==
    [res EXCEPT
        !.status = "success",
        !.verdict = generate_verdict(highest),
        !.highest_similarity = highest,
        !.top_references = top_references_of(top)]

\* Stage 6: the refutation check, the verdict and the result.
Verdict ==
    /\ pc = "verdict"
    /\ LET top == top_results_of(similarity_results)
           highest == highest_similarity_of(top)
       IN  /\ results' = success_result(results, top, highest)
           /\ pc' = "done"
    /\ calls' = [calls EXCEPT !.verdict = @ + 1]
    /\ UNCHANGED <<xvars, fvars, http>>
    /\ UNCHANGED <<entry, input_type, user_input, processed,
                   reference_articles, futures, consumed, reference_contents,
                   similarity_results>>

PNext ==
    \/ ApiReject
    \/ ApiUnavailable
    \/ ApiRespond
    \/ Enter
    \/ Preprocess
    \/ Search
    \/ \E i \in 1..MaxCandidates : WorkerStart(i)
    \/ \E i \in 1..MaxCandidates : WorkerFinish(i)
    \/ \E i \in 1..MaxCandidates : Merge(i)
    \/ CrawlDone
    \/ Score
    \/ Verdict

\* ------------------------------------- the scoring functions, one call
\* The similarities generate_verdict is applied to: every ten-thousandth a
\* cosine can be.
VerdictScores == (0 - One)..One

VerdictCalls == {[fn |-> "generate_verdict", arg |-> s] : s \in VerdictScores}

FGenerateVerdict ==
    /\ fcall.fn = "generate_verdict" /\ fret = <<>>
    /\ fret' = <<generate_verdict(fcall.arg)>>
    /\ UNCHANGED <<fcall, xvars, pvars>>

\* The scored evidence stage 6 is applied to: up to MaxScored items, sorted by
\* similarity descending as stage 5 leaves them.
MaxScored == 4

ScoredTitles == {"bai bao", "tin gia", "TIN GIA"}

ScoredSims == {2000, 6000, 6001, 9000, One}

\* The similarities of n items sorted descending.
SortedSims(n) ==
    {v \in [1..n -> ScoredSims] :
        \A i \in 1..n : \A j \in 1..n : i < j => v[i] >= v[j]}

\* The scored lists of n items, each item under a url of its own.
ScoredLists(n) ==
    {[i \in 1..n |-> [url |-> i, title |-> t[i], overall_similarity |-> v[i]]] :
        t \in [1..n -> ScoredTitles], v \in SortedSims(n)}

TopScoresCalls(n) == {[fn |-> "top_scores", arg |-> q] : q \in ScoredLists(n)}

\* Stage 6 on a scored list: the top results, their adjusted scores and the
\* highest of these, the results dictionary, and the formatted answer.
stage6(scored) ==
    LET r == refutation_check_and_max(scored)
        res == success_result([NoResults EXCEPT !.status = "processing"],
                              r.top_results, r.highest_similarity)
    IN  [top_results |-> r.top_results,
         final_scores |-> r.final_scores,
         highest_similarity |-> r.highest_similarity,
         results |-> res,
         body |-> format_result_for_frontend(res)]

FTopScores ==
    /\ fcall.fn = "top_scores" /\ fret = <<>>
    /\ fret' = <<stage6(fcall.arg)>>
    /\ UNCHANGED <<fcall, xvars, pvars>>

\* The cosines calculate_similarity_batch gets for 1 to MaxBatch references.
MaxBatch == 4

BatchCalls ==
    {[fn |-> "similarity_batch", arg |-> sims] :
        sims \in UNION {[1..n -> Scores] : n \in 1..MaxBatch}}

FSimilarityBatch ==
    /\ fcall.fn = "similarity_batch" /\ fret = <<>>
    /\ fret' = <<calculate_similarity_batch(fcall.arg)>>
    /\ UNCHANGED <<fcall, xvars, pvars>>

\* Stage 5 on an evidence list in the order in which the tasks were merged:
\* up to MaxRefs records of distinct candidates, and the similarity the
\* encoder gives each.
MaxRefs == 3

EvidenceLists(n) ==
    {q \in [1..n -> [url : 1..MaxRefs, title : {"bai bao", "tin gia"},
                     content : {<<W(101)>>}]] :
        \A i \in 1..n : \A j \in 1..n : q[i].url = q[j].url => i = j}

ScoreCalls(n) ==
    {[fn |-> "score_references", arg |-> [refs |-> refs, sims |-> sims]] :
        refs \in EvidenceLists(n), sims \in [1..n -> Scores]}

FScoreReferences ==
    /\ fcall.fn = "score_references" /\ fret = <<>>
    /\ fret' = <<score_references(fcall.arg.refs, fcall.arg.sims)>>
    /\ UNCHANGED <<fcall, xvars, pvars>>

\* Two calls of _try_requests_method for one URL that serves a static page:
\* each attempt sends a user agent picked at random, and gets the page, a
\* status other than 200, or a transport error.
user_agents == 1..4

AgentPicks == {<<1, 1, 1>>, <<4, 2, 3>>}

AttemptFates == {"page", "status", "raise"}

StaticPages == {[title |-> ti, content |-> co] : ti \in PageTitles, co \in PageTexts}

Serve(page, agent, fate) ==
    IF fate = "page" THEN HttpOk(page.title, page.content)
    ELSE IF fate = "status" THEN HttpError
    ELSE RaiseResp

RunsOfStaticPage ==
    [agents : AgentPicks, fates : [1..max_retries -> AttemptFates]]

TwiceCalls(pg) ==
    {[fn |-> "requests_twice", arg |-> [page |-> pg, first |-> a, second |-> b]] :
        a \in RunsOfStaticPage, b \in RunsOfStaticPage}

fetch_static(page, run) ==
    try_requests_method(
        [i \in 1..max_retries |-> Serve(page, run.agents[i], run.fates[i])])

FRequestsTwice ==
    /\ fcall.fn = "requests_twice" /\ fret = <<>>
    /\ fret' = <<[first |-> fetch_static(fcall.arg.page, fcall.arg.first),
                  second |-> fetch_static(fcall.arg.page, fcall.arg.second)]>>
    /\ UNCHANGED <<fcall, xvars, pvars>>

\* _extract_content on a parsed page, told by the lengths of the paragraph
\* texts its sources give: the <article> element (0: none, or no paragraph of
\* more than 30 characters), the matching divs in document order, the
\* per-domain selector, and the first 50 page-wide paragraphs.
ArticleMin == 200

DivEnough == 500

ContentPages ==
    [article : {0, 150, 200, 300},
     divs : {<<>>} \cup [1..1 -> {100, 501, 900}] \cup [1..2 -> {100, 501, 900}],
     domain : {0, 120, 400},
     fallback : {0, 250}]

Content(src, len) == [src |-> IF len = 0 THEN "" ELSE src, len |-> len]

\* for div in content_divs: keep a longer text, stop at the first kept text
\* of more than 500 characters.
RECURSIVE ScanDivs(_, _, _)
ScanDivs(divs, k, content) ==
    IF k > Len(divs) THEN content
    ELSE LET temp_content == Content("div", divs[k])
         IN  IF temp_content.len > content.len
             THEN (IF temp_content.len > DivEnough THEN temp_content
                   ELSE ScanDivs(divs, k + 1, temp_content))
             ELSE ScanDivs(divs, k + 1, content)

\* The value of content after each of the four steps.
content_steps(page) ==
    LET a == Content("article", page.article)
        b == IF a.len < ArticleMin THEN ScanDivs(page.divs, 1, a) ELSE a
        c == IF b.len < ArticleMin THEN Content("domain", page.domain) ELSE b
        d == IF c.len < ArticleMin THEN Content("fallback", page.fallback) ELSE c
    IN  [a |-> a, b |-> b, c |-> c, d |-> d]

extract_content(page) ==
    IF page.article > ArticleMin THEN Content("article", page.article)
    ELSE content_steps(page).d

ExtractContentCalls == {[fn |-> "extract_content", arg |-> pg] : pg \in ContentPages}

FExtractContent ==
    /\ fcall.fn = "extract_content" /\ fret = <<>>
    /\ fret' = <<[content |-> extract_content(fcall.arg),
                  steps |-> content_steps(fcall.arg)]>>
    /\ UNCHANGED <<fcall, xvars, pvars>>

\* ------------------------------------------------------- specifications
XIdle == XInit /\ xurl = NoUrl

FIdle == fcall = [fn |-> "none", arg |-> <<>>] /\ fret = <<>>

Init == PInit /\ XIdle /\ FIdle

Next == PNext

Spec == Init /\ [][Next]_vars

XNext ==
    \/ XStart
    \/ XAttempt
    \/ XSleep
    \/ XRetriesExhausted
    \/ XArchiveLookup
    \/ XArchiveFetch
    \/ XSnippet

InitExtract ==
    /\ XInit
    /\ xurl \in Urls
    /\ FIdle
    /\ entry = "direct" /\ input_type = "url" /\ user_input = <<>>
    /\ PIdle /\ HttpIdle(TRUE)

NextExtract == XNext

SpecExtract == InitExtract /\ [][NextExtract]_vars

\* Every HTTP call returns or times out (each is made with a timeout), and
\* the calling thread keeps running.
FairSpecExtract == SpecExtract /\ WF_vars(NextExtract)

\* Stage 3 alone, for more candidates than the pool has threads: the tasks
\* are submitted, and each one ends with no record or with one record.
MaxPoolCandidates == 6

PoolClaim == <<Tok(5, "word"), Tok(7, "word"), Tok(2, "word")>>

PoolOutcomes ==
    {o \in ProcessUrlResults :
        \/ o = Nothing(FALSE)
        \/ o = Found("", normalize_text(<<W(101)>>))}

InitPool ==
    /\ XIdle /\ FIdle /\ HttpIdle(TRUE)
    /\ entry = "direct" /\ input_type = "text" /\ user_input = PoolClaim
    /\ pc = "crawl"
    /\ processed = process_text(PoolClaim, <<>>)
    /\ results = [NoResults EXCEPT !.status = "processing"]
    /\ \E n \in 1..MaxPoolCandidates :
          /\ reference_articles = [i \in 1..n |-> [url |-> i, title |-> "bai bao"]]
          /\ futures = [i \in 1..n |-> NoFuture]
          /\ calls = [NoCalls EXCEPT !.search = 1, !.submit = n]
    /\ consumed = {}
    /\ reference_contents = <<>>
    /\ similarity_results = <<>>

PoolWorkerFinish(i) == TaskEnds(i, PoolOutcomes)

NextPool ==
    \/ \E i \in 1..MaxPoolCandidates : WorkerStart(i)
    \/ \E i \in 1..MaxPoolCandidates : PoolWorkerFinish(i)
    \/ \E i \in 1..MaxPoolCandidates : Merge(i)
    \/ CrawlDone

\* Fair scheduling: the calling thread and the pool's threads keep running,
\* and every network call of a task is bounded by its timeout.
FairSpecPool == InitPool /\ [][NextPool]_vars /\ WF_vars(NextPool)

InitFunctions ==
    /\ \/ fcall \in VerdictCalls
       \/ \E n \in 0..MaxScored : fcall \in TopScoresCalls(n)
       \/ fcall \in BatchCalls
       \/ \E pg \in StaticPages : fcall \in TwiceCalls(pg)
       \/ fcall \in ExtractContentCalls
       \/ \E n \in 1..MaxRefs : fcall \in ScoreCalls(n)
    /\ fret = <<>>
    /\ XIdle
    /\ entry = "direct" /\ input_type = "text" /\ user_input = <<>>
    /\ PIdle /\ HttpIdle(TRUE)

NextFunctions ==
    \/ FGenerateVerdict
    \/ FTopScores
    \/ FSimilarityBatch
    \/ FRequestsTwice
    \/ FExtractContent
    \/ FScoreReferences

SpecFunctions == InitFunctions /\ [][NextFunctions]_vars

\* ================================================================ claims
TerminalStatuses ==
    {"success", "input_too_short", "no_references", "crawl_failed", "error"}

\* A worker's extraction failed: it returned nothing, returned empty content,
\* or raised.
ExtractionFailed(o) ==
    \/ o.kind = "none"
    \/ o.kind = "raise"
    \/ o.kind = "rec" /\ o.rec.content = <<>>

\* Stage 3 is over: every submitted task is finished and handed out.
CrawlOver ==
    /\ futures # <<>>
    /\ consumed = 1..Len(futures)
    /\ pc # "crawl"

Succeeded == {i \in 1..Len(futures) : ~ExtractionFailed(futures[i].out)}

EvidenceUrls == {reference_contents[k].url : k \in 1..Len(reference_contents)}

\* C1: whatever the collaborators do, raising included, check_fact returns: no
\* exception leaves it, and the status it returns is one of success,
\* input_too_short, no_references, crawl_failed and error, never "processing".
C1_AlwaysReturnsTerminalStatus ==
    /\ pc # "escaped"
    /\ pc = "done" => results.status \in TerminalStatuses
    /\ results.error # "" => pc = "done" /\ results.status = "error"

\* C1 witness: the similarity oracle raised in stage 5 and check_fact returned
\* status error.
C1_Witness ==
    /\ pc = "done"
    /\ results.status = "error"
    /\ results.error = "similarity"
    /\ calls.similarity = 1

\* C2: when every one of the N >= 1 extraction tasks fails, the result is
\* crawl_failed without a verdict, and neither the similarity oracle nor the
\* verdict classifier is invoked.
C2_AllFailedGivesCrawlFailed ==
    (CrawlOver /\ Succeeded = {}) =>
        /\ pc = "done"
        /\ results.status = "crawl_failed"
        /\ results.verdict = NoVerdict
        /\ calls.similarity = 0
        /\ calls.verdict = 0

\* C2 witness: two candidates, one whose task raised and one whose record has
\* empty content, and the result is crawl_failed.
C2_Witness ==
    /\ CrawlOver
    /\ Len(futures) = 2
    /\ futures[1].out.kind = "raise"
    /\ futures[2].out.kind = "rec" /\ futures[2].out.rec.content = <<>>
    /\ results.status = "crawl_failed"

\* C3: a failed extraction drops that candidate only: the evidence handed to
\* scoring is exactly the candidates whose extraction succeeded, each with its
\* own content, and with at least one of them the pipeline goes on to scoring
\* instead of returning crawl_failed.
C3_FailureDropsOnlyThatCandidate ==
    CrawlOver =>
        /\ EvidenceUrls = Succeeded
        /\ Len(reference_contents) = Cardinality(Succeeded)
        /\ \A k \in 1..Len(reference_contents) :
              reference_contents[k].content =
                  futures[reference_contents[k].url].out.rec.content
        /\ Succeeded # {} =>
              /\ pc \in {"score", "verdict", "done"}
              /\ results.status # "crawl_failed"
              /\ pc = "done" => calls.similarity = 1 /\ results.error \in {"", "similarity"}

\* C3 witness: of two candidates the first one's task raised, the second one
\* succeeded, and the run ended in success on the second one's evidence.
C3_Witness ==
    /\ CrawlOver
    /\ Len(futures) = 2
    /\ futures[1].out.kind = "raise"
    /\ Succeeded = {2}
    /\ results.status = "success"
    /\ Len(results.top_references) = 1

\* C4 as stated: a text claim of fewer than 3 words always ends with status
\* input_too_short, with no source discovery and no extraction.
C4_Original ==
    (input_type = "text" /\ Len(user_input) < 3 /\ pc \in {"done", "rejected"}) =>
        /\ results.status = "input_too_short"
        /\ calls.search = 0
        /\ calls.submit = 0

\* C4 amended: a text claim of fewer than 3 words sent to the endpoint is
\* rejected by the request validator; check_fact is never entered for it, so it
\* gets no pipeline status and neither source discovery nor extraction runs.
C4_ShortTextRejectedByValidator ==
    (entry = "api" /\ input_type = "text" /\ Len(user_input) < 3) =>
        /\ pc \in {"request", "rejected"}
        /\ results.status = "none"
        /\ processed = NoProcessed
        /\ calls = NoCalls

\* C4 witness: a two-word text claim rejected at the endpoint.
C4_Witness ==
    /\ entry = "api"
    /\ input_type = "text"
    /\ Len(user_input) = 2
    /\ pc = "rejected"

\* C5: the status is input_too_short exactly when process_input returned a
\* result with no keywords and a full text under 15 characters; then neither
\* the source finder nor an extraction task is invoked, and with any other
\* non-null result the pipeline goes on to source discovery.
C5_TooShortExactly ==
    /\ results.status = "input_too_short" <=>
          (processed.ok /\ processed.keywords = <<>> /\ processed.full_len < 15)
    /\ results.status = "input_too_short" =>
          pc = "done" /\ calls.search = 0 /\ calls.submit = 0
    /\ (processed.ok /\ ~(processed.keywords = <<>> /\ processed.full_len < 15)) =>
          pc = "search" \/ calls.search = 1

\* C5 witness: a three-word claim of 8 characters without keywords, accepted
\* by the endpoint, ends as input_too_short.
C5_Witness ==
    /\ entry = "api"
    /\ Len(user_input) = 3
    /\ processed.ok /\ processed.keywords = <<>> /\ processed.full_len = 8
    /\ results.status = "input_too_short"

\* C6: when the source finder returns an empty candidate list the result is
\* no_references; no extraction task is launched and nothing is scored.
C6_NoCandidatesGivesNoReferences ==
    (calls.search = 1 /\ reference_articles = <<>> /\ results.error # "search") =>
        /\ pc = "done"
        /\ results.status = "no_references"
        /\ calls.submit = 0
        /\ futures = <<>>
        /\ calls.similarity = 0
        /\ calls.verdict = 0

\* C6 witness: the source finder was asked and answered with no candidate.
C6_Witness ==
    /\ calls.search = 1
    /\ reference_articles = <<>>
    /\ results.status = "no_references"

DirectGets == Cardinality({i \in 1..Len(xtrace) : xtrace[i] = "GET url"})

\* C7: within one extract call the strategies run in the order direct fetch,
\* archive, search snippet, each at most once; a strategy is invoked only after
\* every earlier one handed back nothing, and none after one handed back a
\* record.
C7_StrictFallbackOrder ==
    /\ Len(xcalls) <= 3
    /\ xcalls = SubSeq(<<"requests", "archive", "snippet">>, 1, Len(xcalls))
    /\ Len(xouts) <= Len(xcalls)
    /\ \A k \in 1..Len(xcalls) : \A j \in 1..(k - 1) :
          j <= Len(xouts) /\ xouts[j] = "none"
    /\ xpc \in {"returned", "raised"} =>
          /\ Len(xouts) = Len(xcalls)
          /\ xres.kind = xouts[Len(xouts)]

\* C7 witness: strategies 1 and 2 failed, strategy 3 succeeded: each was invoked
\* once, in order.
C7_Witness ==
    /\ xpc = "returned"
    /\ xcalls = <<"requests", "archive", "snippet">>
    /\ xouts = <<"none", "none", "rec">>
    /\ xres.kind = "rec"

\* C8: the direct fetch issues at most 3 GETs, none after one that succeeded;
\* when all 3 fail, by status or by a transport error, it hands back nothing
\* without raising, and the archive fallback is called next.
C8_DirectFetchAtMostThreeAttempts ==
    /\ DirectGets <= 3
    /\ \A i \in 1..DirectGets :
          (xnet[i].kind = "http" /\ xnet[i].status = 200
              /\ TextLen(xnet[i].content) > 100) => i = DirectGets /\ xouts[1] = "rec"
    /\ (Len(xouts) >= 1 /\ xouts[1] = "none") =>
          /\ DirectGets = 3
          /\ Len(xcalls) >= 2 /\ xcalls[2] = "archive"
    /\ (DirectGets = 3 /\ xpc \notin {"requests", "sleep"} /\ xouts[1] # "rec") =>
          xouts[1] = "none"
    /\ xpc # "raised"

\* C8 witness: three attempts failed, by a transport error, by status 404 and
\* by a 200 with too little content, and the archive fallback was called.
C8_Witness ==
    /\ DirectGets = 3
    /\ xnet[1].kind = "raise"
    /\ xnet[2].kind = "http" /\ xnet[2].status = 404
    /\ xnet[3].kind = "http" /\ xnet[3].status = 200
    /\ xouts = <<"none">>
    /\ xcalls = <<"requests", "archive">>
    /\ xpc = "archive"

\* C9 as stated: every evidence record that reaches scoring has content longer
\* than 100 characters after normalization.
C9_Original ==
    \A k \in 1..Len(reference_contents) :
        TextLen(reference_contents[k].content) > 100

\* C10: with all three strategies exhausted extract hands back a failure and
\* does not raise, an exception inside the archive or the snippet strategy
\* being handled there; the pipeline drops that source and does not end with
\* status error because of it.
C10_ExhaustedIsDroppedSource ==
    /\ \A i \in 1..Len(futures) :
          /\ futures[i].out.kind = "raise" => futures[i].out.at = "nlp"
          /\ (futures[i].out.kind = "none" /\ i \in consumed) =>
                i \notin EvidenceUrls
    /\ (pc = "done" /\ results.status = "error") =>
          /\ results.error \in {"input", "preprocess", "search", "similarity"}
          /\ results.error \in {"input", "preprocess", "search"} => futures = <<>>

\* C10 witness: a source whose three strategies were exhausted, an exception
\* having been handled inside a fallback strategy, was dropped, and the run
\* ended in success on the other source.
C10_Witness ==
    /\ CrawlOver
    /\ \E i \in 1..Len(futures) :
          futures[i].out.kind = "none" /\ futures[i].out.caught
    /\ results.status = "success"

\* C20: the URL-shape check never blocks extraction. Whatever
\* is_valid_article_url says of the URL, once extract_from_url has started the
\* direct fetch has been invoked, the strategies invoked are a prefix of
\* direct fetch, archive, search snippet, and the call hands back nothing only
\* after all three have been invoked and handed back nothing.
C20_UrlCheckOnlyWarns ==
    /\ xpc # "start" =>
          /\ Len(xcalls) >= 1
          /\ xcalls = SubSeq(Strategies, 1, Len(xcalls))
    /\ (xpc = "returned" /\ xres.kind = "none") =>
          /\ xcalls = Strategies
          /\ xouts = <<"none", "none", "none">>
    /\ \A k \in 1..Len(xouts) : xouts[k] = "none" =>
          (k < Len(Strategies) => Len(xcalls) > k)

\* C20 witness: a URL without a digit, flagged as a likely non-article, for
\* which the direct fetch handed back an evidence record.
C20_Witness ==
    /\ ~is_valid_article_url(xurl)
    /\ ~xurl.digit
    /\ xpc = "returned"
    /\ xcalls = <<"requests">>
    /\ xres.kind = "rec"

\* The five bands: lowest similarity of the band, lowest similarity of the
\* next band up, and what the band carries.
BandTable ==
    << [lo |-> 8500, up |-> One + 1,
        band |-> Band("HIGHLY_LIKELY_TRUE", "Rat co kha nang dung", "rat cao", "green")],
       [lo |-> 7000, up |-> 8500,
        band |-> Band("LIKELY_TRUE", "Co kha nang dung", "kha tuong dong", "lightgreen")],
       [lo |-> 5000, up |-> 7000,
        band |-> Band("UNCERTAIN", "Khong chac chan", "mot so diem tuong dong", "orange")],
       [lo |-> 3000, up |-> 5000,
        band |-> Band("LIKELY_FALSE", "Co kha nang sai", "it diem tuong dong", "coral")],
       [lo |-> 0, up |-> 3000,
        band |-> Band("HIGHLY_LIKELY_FALSE", "Rat co kha nang sai", "rat thap", "red")] >>

VerdictReturned == fcall.fn = "generate_verdict" /\ Len(fret) = 1

\* C11: for every similarity s in [0,1] generate_verdict gives the band whose
\* inclusive lower bound is the greatest one not above s (0.85, 0.70, 0.50,
\* 0.30, 0), so exactly one band, and with it that band's fixed label,
\* explanation and color; 0.85 is HIGHLY_LIKELY_TRUE, 0.8499 LIKELY_TRUE, 0.5
\* UNCERTAIN and 0.0 HIGHLY_LIKELY_FALSE.
C11_BandsInclusiveBelow ==
    (VerdictReturned /\ fcall.arg \in 0..One) =>
        LET s == fcall.arg
            v == fret[1]
            hit == {k \in 1..Len(BandTable) :
                       BandTable[k].lo <= s /\ s < BandTable[k].up}
        IN  /\ Cardinality(hit) = 1
            /\ \A k \in hit :
                  /\ v.verdict = BandTable[k].band.verdict
                  /\ v.label = BandTable[k].band.label
                  /\ v.explanation = BandTable[k].band.explanation
                  /\ v.color = BandTable[k].band.color
            /\ s = 8500 => v.verdict = "HIGHLY_LIKELY_TRUE"
            /\ s = 8499 => v.verdict = "LIKELY_TRUE"
            /\ s = 5000 => v.verdict = "UNCERTAIN"
            /\ s = 0 => v.verdict = "HIGHLY_LIKELY_FALSE"
            /\ v.similarity_score = s

\* C11 witness: generate_verdict was applied to 0.85 and gave the top band.
C11_Witness ==
    /\ VerdictReturned
    /\ fcall.arg = 8500
    /\ fret[1].verdict = "HIGHLY_LIKELY_TRUE"
    /\ fret[1].color = "green"

Clamp(v, lo, hi) == IF v < lo THEN lo ELSE IF v > hi THEN hi ELSE v

\* C12 as stated: the confidence of the verdict of a successful run is
\* |highest_similarity - 0.5| * 2 clamped to [0,1], so never outside [0,1].
C12_Original ==
    results.status = "success" =>
        /\ results.verdict.confidence =
              Clamp(Abs(results.highest_similarity - 5000) * 2, 0, One)
        /\ results.verdict.confidence >= 0
        /\ results.verdict.confidence <= One

TopScoresReturned == fcall.fn = "top_scores" /\ Len(fret) = 1

RefutingTitles == {"tin gia", "TIN GIA"}

\* C13: each selected top item gets one adjusted score: 1 - raw exactly when
\* its title holds a refutation term and its raw similarity is strictly above
\* 0.6, and the raw score in every other case.
C13_InversionExactlyWhenRefutingAbove06 ==
    TopScoresReturned =>
        LET top == fret[1].top_results
            adj == fret[1].final_scores
        IN  /\ Len(adj) = Len(top)
            /\ \A i \in 1..Len(top) :
                  LET raw == top[i].overall_similarity
                      inverted == top[i].title \in RefutingTitles /\ raw > 6000
                  IN  /\ inverted => adj[i] = One - raw
                      /\ ~inverted => adj[i] = raw

\* C13 witness: a refuting title with raw similarity 0.9 was adjusted to 0.1,
\* next to a refuting title at exactly 0.6 that kept its raw score.
C13_Witness ==
    /\ TopScoresReturned
    /\ Len(fret[1].top_results) = 2
    /\ fret[1].top_results[1].title = "tin gia"
    /\ fret[1].top_results[1].overall_similarity = 9000
    /\ fret[1].final_scores[1] = 1000
    /\ fret[1].top_results[2].title = "TIN GIA"
    /\ fret[1].top_results[2].overall_similarity = 6000
    /\ fret[1].final_scores[2] = 6000

\* The adjusted score of item i of a scored list.
Adjusted(q, i) ==
    IF q[i].title \in RefutingTitles /\ q[i].overall_similarity > 6000
    THEN One - q[i].overall_similarity
    ELSE q[i].overall_similarity

\* C14: the highest similarity is the greatest adjusted score among the first
\* three items of the scored list (all of them when there are fewer), 0 for
\* an empty list; items after the third have no part in it.
C14_HighestIsMaxOfTopThree ==
    TopScoresReturned =>
        LET q == fcall.arg
            n == IF Len(q) < 3 THEN Len(q) ELSE 3
            h == fret[1].highest_similarity
        IN  /\ Len(fret[1].top_results) = n
            /\ \A i \in 1..n : fret[1].top_results[i] = q[i]
            /\ n = 0 => h = 0
            /\ n > 0 =>
                  /\ \E i \in 1..n : h = Adjusted(q, i)
                  /\ \A i \in 1..n : Adjusted(q, i) <= h

\* C14 witness: four items, the first three refuting ones inverted to 0.1, the
\* fourth one at 0.6: the highest similarity is 0.1.
C14_Witness ==
    /\ TopScoresReturned
    /\ Len(fcall.arg) = 4
    /\ \A i \in 1..3 : fcall.arg[i].title = "tin gia"
                         /\ fcall.arg[i].overall_similarity = 9000
    /\ fcall.arg[4].title = "bai bao"
    /\ fcall.arg[4].overall_similarity = 6000
    /\ fret[1].highest_similarity = 1000

\* C15 as stated: the scored evidence is sorted by raw similarity descending,
\* and items of equal similarity stand in the discovery order of their
\* candidates (a candidate's url is its place in the source finder's answer),
\* whatever the order in which the extraction tasks completed.
C15_Original ==
    \A i \in 1..Len(similarity_results) : \A j \in 1..Len(similarity_results) :
        i < j =>
            /\ similarity_results[i].overall_similarity >=
                   similarity_results[j].overall_similarity
            /\ similarity_results[i].overall_similarity =
                   similarity_results[j].overall_similarity
                => similarity_results[i].url < similarity_results[j].url

BatchReturned == fcall.fn = "similarity_batch" /\ Len(fret) = 1

\* C16 as stated: for n references calculate_similarity_batch returns n
\* entries whose index values are a permutation of the references' places,
\* each with a similarity in [0,1], sorted by similarity descending.
C16_Original ==
    BatchReturned =>
        LET n == Len(fcall.arg)
            out == fret[1]
        IN  /\ Len(out) = n
            /\ {out[k].index : k \in 1..Len(out)} = 1..n
            /\ \A k \in 1..Len(out) :
                  /\ out[k].similarity = fcall.arg[out[k].index]
                  /\ out[k].similarity >= 0 /\ out[k].similarity <= One
            /\ \A i \in 1..Len(out) : \A j \in 1..Len(out) :
                  i < j => out[i].similarity >= out[j].similarity

AllWorkersFinished ==
    /\ futures # <<>>
    /\ \A i \in 1..Len(futures) : futures[i].st = "done"

PastStage3 ==
    \/ pc \in {"score", "verdict"}
    \/ pc = "done" /\ results.status \in {"crawl_failed", "success"}
    \/ pc = "done" /\ results.error = "similarity"

\* C17: scoring does not start and crawl_failed is not returned while an
\* extraction task is queued or running, evidence having arrived or not; and
\* once the tasks are submitted, every one of them runs to completion.
C17_WaitsForEveryWorker ==
    /\ [](PastStage3 => (AllWorkersFinished /\ consumed = 1..Len(futures)))
    /\ [](pc = "crawl" => Len(futures) = Len(reference_articles))
    /\ ((pc = "crawl") ~> AllWorkersFinished)

\* C17 witness: the first candidate's evidence has been merged while the
\* second candidate's task is still running, and the run is still in stage 3.
C17_Witness ==
    /\ pc = "crawl"
    /\ Len(futures) = 2
    /\ consumed = {1}
    /\ Len(reference_contents) = 1
    /\ futures[2].st = "running"

Finished == {i \in 1..Len(futures) : futures[i].st = "done"}

\* C18: in stage 3 at most 5 extraction tasks run at the same time; a task
\* beyond the fifth has been taken up only if enough earlier ones have ended
\* to free a thread for it; no task is taken up twice, and every task is
\* taken up once and ends.
C18_PoolBoundedAndComplete ==
    /\ [](Cardinality(Running) <= 5)
    /\ [](\A i \in 1..Len(futures) :
            /\ futures[i].runs = (IF futures[i].st = "queued" THEN 0 ELSE 1)
            /\ (i > 5 /\ futures[i].st # "queued") =>
                   Cardinality(Finished \ {i}) >= i - 5)
    /\ [](pc # "crawl" =>
            \A i \in 1..Len(futures) :
                futures[i].st = "done" /\ futures[i].runs = 1)
    /\ ((pc = "crawl") ~> (Finished = 1..Len(futures)))

\* C18 witness: six candidates; the sixth task is running together with four
\* others, after one of the first five has ended.
C18_Witness ==
    /\ pc = "crawl"
    /\ Len(futures) = 6
    /\ futures[6].st = "running"
    /\ Cardinality(Running) = 5
    /\ Cardinality(Finished) = 1

\* C19: the result holds a verdict if and only if its status is success; the
\* classifier is invoked once in a run that ends in success and not at all in
\* any other run.
C19_VerdictIffSuccess ==
    /\ results.verdict # NoVerdict <=> results.status = "success"
    /\ calls.verdict = (IF results.status = "success" THEN 1 ELSE 0)
    /\ results.status = "success" =>
          /\ pc = "done"
          /\ results.verdict = generate_verdict(results.highest_similarity)

\* C19 witness: a run that ended in success with a verdict, the classifier
\* having been invoked once.
C19_Witness ==
    /\ pc = "done"
    /\ results.status = "success"
    /\ results.verdict.verdict = "HIGHLY_LIKELY_TRUE"
    /\ calls.verdict = 1

TwiceReturned == fcall.fn = "requests_twice" /\ Len(fret) = 1

Attempts(run) ==
    IF \E i \in 1..3 : run.fates[i] = "page"
    THEN CHOOSE i \in 1..3 :
            run.fates[i] = "page" /\ \A j \in 1..(i - 1) : run.fates[j] # "page"
    ELSE 3

Responded == entry = "api" /\ pc = "done" /\ http.status = 200

\* C22: the formatted result has success = true exactly when the status is
\* success; for input_too_short, no_references, crawl_failed and error it has
\* success = false and a message, and neither a verdict nor references.
C22_SuccessFlagIffStatusSuccess ==
    Responded =>
        /\ http.body.success <=> results.status = "success"
        /\ results.status \in {"input_too_short", "no_references",
                                "crawl_failed", "error"} =>
              /\ ~http.body.success
              /\ http.body.message # ""
              /\ http.body.keys = {"success", "message"}
              /\ http.body.verdict = NoFrontVerdict
              /\ http.body.references = <<>>
        /\ results.status = "success" =>
              /\ "verdict" \in http.body.keys
              /\ http.body.verdict.code = results.verdict.verdict

\* C22 witness: a run that ended with crawl_failed was answered with
\* success = false and the message of that return.
C22_Witness ==
    /\ Responded
    /\ results.status = "crawl_failed"
    /\ ~http.body.success
    /\ http.body.message = "Khong the crawl noi dung"

\* C28 as stated: with no fact checker instance the endpoint answers 503, a
\* validation error is answered with 400, and 500 is left to other faults.
C28_Original ==
    /\ pc = "unavailable" => http.status = 503
    /\ pc = "rejected" => http.status = 400
    /\ http.status = 500 => pc \notin {"unavailable", "rejected"}

\* C23: on success the reference list holds the first min(3, n) of the n
\* scored items, in their order, which is by similarity descending, each
\* with its own url, title and raw similarity, in the results and in the
\* formatted answer; the similarity of the verdict is the adjusted similarity
\* of one of the listed references.
C23_ReferencesAreTopThree ==
    (TopScoresReturned /\ Len(fcall.arg) > 0) =>
        LET q == fcall.arg
            n == IF Len(q) < 3 THEN Len(q) ELSE 3
            refs == fret[1].results.top_references
            shown == fret[1].body.references
        IN  /\ fret[1].results.status = "success"
            /\ Len(refs) = n /\ Len(shown) = n
            /\ \A i \in 1..n :
                  /\ refs[i].url = q[i].url
                  /\ refs[i].title = q[i].title
                  /\ refs[i].similarity = q[i].overall_similarity
                  /\ shown[i].url = q[i].url
                  /\ shown[i].similarity_percentage = q[i].overall_similarity
            /\ \A i \in 1..n : \A j \in 1..n :
                  i < j => refs[i].similarity >= refs[j].similarity
            /\ \E i \in 1..n :
                  /\ fret[1].results.verdict.similarity_score = Adjusted(q, i)
                  /\ fret[1].body.verdict.similarity_percentage = Adjusted(q, i)

\* C23 witness: four scored items, three references listed; the first is a
\* refuting one listed with its raw similarity 0.9, and the verdict's
\* similarity 0.2 is that of the second reference.
C23_Witness ==
    /\ TopScoresReturned
    /\ Len(fcall.arg) = 4
    /\ Len(fret[1].results.top_references) = 3
    /\ fret[1].results.top_references[1].similarity = 9000
    /\ fret[1].results.top_references[2].similarity = 2000
    /\ fret[1].results.verdict.similarity_score = 2000

\* The passes of the retry loop that did not end it: a GET that raised, a
\* status other than 200, or a 200 page with at most 100 characters of content.
FailedAttempt(resp) == attempt_result(resp).kind # "rec"

\* The backoff waits stand between two direct fetches, and every direct fetch
\* but the first follows one.
WaitsOnlyBetweenAttempts ==
    /\ \A i \in 1..Len(xtrace) :
          xtrace[i] = "sleep" =>
              /\ i > 1 /\ xtrace[i - 1] = "GET url"
              /\ i < Len(xtrace) => xtrace[i + 1] = "GET url"
    /\ \A i \in 2..Len(xtrace) :
          xtrace[i] = "GET url" => xtrace[i - 1] = "sleep"
    /\ Cardinality({i \in 1..Len(xtrace) : xtrace[i] = "sleep"}) <= max_retries - 1

\* C24 as stated: in the direct fetch a retry happens exactly after an attempt
\* that ended in a non-200 status or a transport error, a backoff wait
\* precedes every retry, and there is no wait before the first attempt and
\* none after the last.
C24_Original ==
    /\ WaitsOnlyBetweenAttempts
    /\ \A i \in 1..(DirectGets - 1) :
          xnet[i].kind = "raise" \/ xnet[i].status # 200
    /\ \A i \in 1..DirectGets :
          (i < max_retries /\ (xnet[i].kind = "raise" \/ xnet[i].status # 200)
             /\ Len(xcalls) >= 2) => DirectGets > i

\* C24: in the direct fetch a retry happens exactly after an attempt, other
\* than the third, that gave no record: a transport error, a status other
\* than 200, or a 200 page with at most 100 characters of content; a backoff
\* wait precedes every retry, and there is no wait before the first attempt
\* and none after the last.
C24_RetryAfterEveryFailedAttempt ==
    /\ WaitsOnlyBetweenAttempts
    /\ \A i \in 1..(DirectGets - 1) : FailedAttempt(xnet[i])
    /\ \A i \in 1..DirectGets :
          (i < max_retries /\ FailedAttempt(xnet[i]) /\ Len(xcalls) >= 2)
              => DirectGets > i

\* C24 witness: a 200 page with too little content, a wait, a transport
\* error, a wait, a 404, and the archive fallback is called with no wait.
C24_Witness ==
    /\ xtrace = <<"GET url", "sleep", "GET url", "sleep", "GET url">>
    /\ xnet[1].kind = "http" /\ xnet[1].status = 200
    /\ xnet[2].kind = "raise"
    /\ xnet[3].kind = "http" /\ xnet[3].status = 404
    /\ xpc = "archive"

ContentReturned == fcall.fn = "extract_content" /\ Len(fret) = 1

\* C25 as stated: the content is the first applicable of the four sources in
\* order; the text taken in step (b) is the longest over all matching
\* elements, not the first one that is long enough; and step (c) never
\* replaces a longer candidate found earlier with a shorter or empty one.
C25_Original ==
    ContentReturned =>
        LET page == fcall.arg
            r == fret[1].content
            steps == fret[1].steps
        IN  /\ page.article > ArticleMin => r = Content("article", page.article)
            /\ r.src = "div" =>
                  \A k \in 1..Len(page.divs) : r.len >= page.divs[k]
            /\ steps.c.len >= steps.b.len

\* The candidates whose outcome the loop has merged as an evidence record.
MergedUsable == {i \in consumed : usable(futures[i].out)}

\* C26: the evidence list of stage 3 changes only in a pass of the calling
\* thread's loop, by one record appended for a task that has ended and was not
\* handed out before, while the tasks themselves stay as they are; an outcome
\* is merged only after its task ended; the list holds one record for every
\* merged usable outcome and no two for one candidate, whatever the order in
\* which the tasks end.
C26_OnlyCoordinatorMerges ==
    /\ [](consumed \subseteq Finished)
    /\ [](/\ Len(reference_contents) = Cardinality(MergedUsable)
          /\ EvidenceUrls = {reference_articles[i].url : i \in MergedUsable})
    /\ [](pc # "crawl" => MergedUsable = Succeeded)
    /\ [][reference_contents' # reference_contents =>
            \E i \in Finished \ consumed :
                /\ consumed' = consumed \cup {i}
                /\ futures' = futures
                /\ reference_contents' =
                      Append(reference_contents,
                             evidence(reference_articles[i], futures[i].out))]_vars

\* C26 witness: three tasks, the third ended and was merged first, then the
\* first; the second gave nothing; the list holds the two records in the
\* order of merging.
C26_Witness ==
    /\ pc = "score"
    /\ Len(futures) = 3
    /\ Len(reference_contents) = 2
    /\ reference_contents[1].url = 3
    /\ reference_contents[2].url = 1
    /\ ~usable(futures[2].out)

Requests(what) == Cardinality({i \in 1..Len(xtrace) : xtrace[i] = what})

\* The requests of one call, in the order in which they were sent, without
\* the waits.
RequestsSent == SelectSeq(xtrace, LAMBDA t : t # "sleep")

\* The place of a request in the chain of strategies.
RequestRank(what) ==
    IF what = "GET url" THEN 1
    ELSE IF what = "GET lookup" THEN 2
    ELSE IF what = "GET snapshot" THEN 3
    ELSE 4

\* C27: provided every HTTP call returns or times out, a call of
\* extract_from_url for one URL ends, handing back a record or nothing and
\* raising nothing, after at most 3 direct fetches, then at most 2 archive
\* requests (the snapshot lookup and the snapshot fetch), then at most 1
\* search request.
C27_AlwaysTerminatesWithinBoundedRequests ==
    /\ <>(xpc = "returned" /\ xres.kind \in {"rec", "none"})
    /\ [](xpc # "raised")
    /\ [](/\ Requests("GET url") <= 3
          /\ Requests("GET lookup") <= 1
          /\ Requests("GET snapshot") <= 1
          /\ Requests("GET search") <= 1
          /\ Len(RequestsSent) <= 6
          /\ \A i \in 1..Len(RequestsSent) : \A j \in 1..Len(RequestsSent) :
                i < j => RequestRank(RequestsSent[i]) <= RequestRank(RequestsSent[j]))

\* C27 witness: the longest call: three direct fetches, the snapshot lookup,
\* the snapshot fetch and the search request all failed, and the call
\* returned nothing.
C27_Witness ==
    /\ xpc = "returned"
    /\ xres.kind = "none"
    /\ RequestsSent = <<"GET url", "GET url", "GET url",
                        "GET lookup", "GET snapshot", "GET search">>

ScoresReturned == fcall.fn = "score_references" /\ Len(fret) = 1

\* C29: every scored entry carries the url and title of one evidence record
\* and the similarity the encoder gave that very record, and every evidence
\* record has one scored entry, whatever the order of the evidence list and
\* whatever order sorting gives the batch result.
C29_ScoreStaysWithItsRecord ==
    ScoresReturned =>
        LET refs == fcall.arg.refs
            sims == fcall.arg.sims
            out == fret[1]
        IN  /\ Len(out) = Len(refs)
            /\ \A k \in 1..Len(out) : \A j \in 1..Len(refs) :
                  out[k].url = refs[j].url =>
                      /\ out[k].title = refs[j].title
                      /\ out[k].overall_similarity = sims[j]
            /\ \A j \in 1..Len(refs) :
                  Cardinality({k \in 1..Len(out) : out[k].url = refs[j].url}) = 1

\* C29 witness: the evidence list holds candidate 3 before candidate 1 (the
\* task of candidate 3 ended first), the encoder scores the second higher, and
\* the scored list holds candidate 1 with 0.9 before candidate 3 with 0.2.
C29_Witness ==
    /\ ScoresReturned
    /\ Len(fcall.arg.refs) = 2
    /\ fcall.arg.refs[1].url = 3 /\ fcall.arg.refs[2].url = 1
    /\ fcall.arg.refs[1].title # fcall.arg.refs[2].title
    /\ fcall.arg.sims = <<2000, 9000>>
    /\ fret[1][1].url = 1 /\ fret[1][1].overall_similarity = 9000
    /\ fret[1][2].url = 3 /\ fret[1][2].overall_similarity = 2000

\* The top items whose score the refutation check inverts.
Inverted(q) ==
    {i \in 1..Len(q) :
        i <= 3 /\ q[i].title \in RefutingTitles /\ q[i].overall_similarity > 6000}

\* C30: for raw similarities in [0, 1] the refutation check never raises a
\* score: every adjusted score is at most its raw score, an inverted one is
\* below 0.4, the similarity of the verdict is at most the highest raw
\* similarity among the top 3, and when every top item is inverted the
\* verdict is LIKELY_FALSE or HIGHLY_LIKELY_FALSE.
C30_AdjustmentNeverRaises ==
    (TopScoresReturned /\ Len(fcall.arg) > 0
        /\ \A i \in 1..Len(fcall.arg) :
              fcall.arg[i].overall_similarity \in 0..One) =>
        LET q == fcall.arg
            r == fret[1]
            n == Len(r.top_results)
        IN  /\ Len(r.final_scores) = n
            /\ \A i \in 1..n :
                  /\ r.final_scores[i] <= q[i].overall_similarity
                  /\ i \in Inverted(q) => r.final_scores[i] < 4000
                  /\ i \notin Inverted(q) =>
                        r.final_scores[i] = q[i].overall_similarity
            /\ \E i \in 1..n :
                  /\ r.results.verdict.similarity_score <= q[i].overall_similarity
                  /\ \A j \in 1..n :
                        q[j].overall_similarity <= q[i].overall_similarity
            /\ Inverted(q) = 1..n =>
                  r.results.verdict.verdict \in {"LIKELY_FALSE", "HIGHLY_LIKELY_FALSE"}

\* C30 witness: the three top items are refuting ones with 1.0, 0.9 and
\* 0.6001; their scores become 0, 0.1 and 0.3999 and the verdict, on 0.3999,
\* is LIKELY_FALSE.
C30_Witness ==
    /\ TopScoresReturned
    /\ Len(fcall.arg) >= 3
    /\ Inverted(fcall.arg) = 1..3
    /\ fret[1].final_scores = <<0, 1000, 3999>>
    /\ fret[1].results.verdict.similarity_score = 3999
    /\ fret[1].results.verdict.verdict = "LIKELY_FALSE"

====
